---- MODULE Spec2Model ----
(***************************************************************************)
(* resticprofile scheduling core: the Job lifecycle (schedule/job.go), the *)
(* launchd handler and its trigger materializer                            *)
(* (schedule/schedule_darwin.go) and the file lock (package lock).         *)
(***************************************************************************)
EXTENDS Integers, Sequences, FiniteSets, TLC

VARIABLES
    job,        \* the Job built for the current invocation (config + process privilege)
    agents,     \* launchd agent files, by job name: the native registration
    last,       \* outcome of the last Job operation: verb, error, handler calls
    event,      \* calendar event handed to the materializer
    entries,    \* CalendarInterval entries the materializer returned
    mpc,        \* materializer position: "idle", "done" (one event) or "listed" (rules)
    rules,      \* calendar events handed together to getCalendarIntervalsFromSchedules
    from,       \* instant the next occurrence of the event is asked for
    occurrence, \* what Next returned for event and from
    marker,     \* lock marker file at the lock path: NoMarker or owner metadata
    locks,      \* lock handles: locked flag and liveness of the owning process
    lockop,     \* outcome of the last lock operation
    clock       \* wall clock in whole ticks, stamps lock markers

vars == <<job, agents, last, event, entries, mpc, rules, from, occurrence,
          marker, locks, lockop, clock>>
jobVars == <<job, agents, last>>
matVars == <<event, entries, mpc, rules>>
calVars == <<from, occurrence>>
lockVars == <<marker, locks, lockop, clock>>

----------------------------------------------------------------------------
(* Bounds *)

MaxSchedules == 2     \* raw schedule strings per job
MaxCard == 2          \* concrete values in a multi-valued Month/Day/Hour/Minute/Second
MaxWeekdays == 5      \* longest weekday range Monday..
NumHandles == 3       \* lock handles on the one path
MaxTime == 2          \* clock ticks
MaxRules == 3         \* calendar events materialized together
MaxYearsAhead == 2    \* years after the reference that Next searches

----------------------------------------------------------------------------
(* calendar.Value / calendar.Event                                         *)

\* A calendar.Value is the set of concrete integers it allows; AnyValue ("*") is the empty set.
AnyValue == {}

HasValue(value) == value # AnyValue

RECURSIVE SortedSeq(_)
SortedSeq(S) ==
    IF S = {} THEN <<>>
    ELSE LET m == CHOOSE x \in S : \A y \in S : x <= y
         IN <<m>> \o SortedSeq(S \ {m})

\* GetRangeValues lists the concrete values of a Value in ascending order.
GetRangeValues(value) == SortedSeq(value)

Samples(base, step, n) == {base + step * k : k \in 0..(n - 1)}

WeekDayValues == {AnyValue, {0}, {6}} \cup {1..k : k \in 1..MaxWeekdays}
MonthValues   == {AnyValue} \cup {Samples(1, 6, n) : n \in 1..MaxCard}
DayValues     == {AnyValue} \cup {Samples(1, 14, n) : n \in 1..MaxCard}
HourValues    == {AnyValue} \cup {Samples(0, 12, n) : n \in 1..MaxCard}
MinuteValues  == {AnyValue} \cup {Samples(0, 30, n) : n \in 1..MaxCard}
SecondValues  == {AnyValue} \cup {Samples(0, 30, n) : n \in 1..MaxCard}

Events ==
    [WeekDay : WeekDayValues, Month : MonthValues, Day : DayValues,
     Hour : HourValues, Minute : MinuteValues, Second : SecondValues]

NewEvent ==
    [WeekDay |-> AnyValue, Month |-> AnyValue, Day |-> AnyValue,
     Hour |-> AnyValue, Minute |-> AnyValue, Second |-> AnyValue]

----------------------------------------------------------------------------
(* Next occurrence of a calendar.Event (calendar.Event.Next)               *)

\* instants are whole seconds of the Gregorian calendar
Instant(year, month, day, hour, minute, second) ==
    [year |-> year, month |-> month, day |-> day,
     hour |-> hour, minute |-> minute, second |-> second]

\* Monday 1 January 2018, 00:00:00
Epoch == Instant(2018, 1, 1, 0, 0, 0)

Months == 1..12
Days == 1..31
Hours == 0..23
Minutes == 0..59
Seconds == 0..59

Leap(year) == year % 4 = 0 /\ (year % 100 # 0 \/ year % 400 = 0)

DaysInMonth(year, month) ==
    IF month = 2 THEN (IF Leap(year) THEN 29 ELSE 28)
    ELSE IF month \in {4, 6, 9, 11} THEN 30 ELSE 31

\* day of the week of a date, Sunday = 0 .. Saturday = 6
Weekday(year, month, day) ==
    LET a == IF month < 3 THEN 1 ELSE 0
        y == year - a
        m == month + 12 * a
        K == y % 100
        J == y \div 100
    IN (day + ((13 * (m + 1)) \div 5) + K + (K \div 4) + (J \div 4) + 5 * J + 6) % 7

\* the values a field allows: its own when it has any, otherwise the whole unit
Allowed(value, unit) == IF HasValue(value) THEN value ELSE unit

MinOf(S) == CHOOSE x \in S : \A y \in S : x <= y

None == -1

\* the next value of the set that is >= current, None when the cycle has none
NextValue(S, current) ==
    IF \E v \in S : v >= current THEN MinOf({v \in S : v >= current}) ELSE None

DateMatches(e, year, month, day) ==
    /\ month \in Allowed(e.Month, Months)
    /\ day \in Allowed(e.Day, Days) /\ day <= DaysInMonth(year, month)
    /\ HasValue(e.WeekDay) => Weekday(year, month, day) \in e.WeekDay

Match(e, x) ==
    /\ DateMatches(e, x.year, x.month, x.day)
    /\ x.hour \in Allowed(e.Hour, Hours)
    /\ x.minute \in Allowed(e.Minute, Minutes)
    /\ x.second \in Allowed(e.Second, Seconds)

NoDate == [found |-> FALSE, year |-> 0, month |-> 0, day |-> 0]

\* first matching date from (year, month, day) on, up to the end of endYear:
\* advance the day, carry into the month, carry into the year, and validate the
\* weekday of the resulting date last
RECURSIVE NextDate(_, _, _, _, _)
NextDate(e, year, month, day, endYear) ==
    IF year > endYear THEN NoDate
    ELSE LET m == NextValue(Allowed(e.Month, Months), month)
             d == NextValue(Allowed(e.Day, Days), day)
         IN IF m = None
               THEN NextDate(e, year + 1, MinOf(Allowed(e.Month, Months)), 1, endYear)
            ELSE IF m # month THEN NextDate(e, year, m, 1, endYear)
            ELSE IF d = None \/ d > DaysInMonth(year, month)
               THEN NextDate(e, year, month + 1, 1, endYear)
            ELSE IF d # day THEN NextDate(e, year, month, d, endYear)
            ELSE IF HasValue(e.WeekDay) /\ Weekday(year, month, day) \notin e.WeekDay
               THEN NextDate(e, year, month, day + 1, endYear)
            ELSE [found |-> TRUE, year |-> year, month |-> month, day |-> day]

NoOccurrence == [found |-> FALSE, at |-> Epoch, asked |-> FALSE]

\* carry-propagation search from the candidate `start`: second, minute, hour,
\* then the date; a unit that moved resets every smaller unit to its minimum
Search(e, start) ==
    LET S == Allowed(e.Second, Seconds)
        M == Allowed(e.Minute, Minutes)
        H == Allowed(e.Hour, Hours)
        s == NextValue(S, start.second)
        m == NextValue(M, IF s = None THEN start.minute + 1 ELSE start.minute)
        h == NextValue(H, IF m = None THEN start.hour + 1 ELSE start.hour)
        date == NextDate(e, start.year, start.month,
                         IF h = None THEN start.day + 1 ELSE start.day,
                         start.year + MaxYearsAhead)
        sameDay == <<date.year, date.month, date.day>>
                        = <<start.year, start.month, start.day>>
        hour == IF sameDay THEN h ELSE MinOf(H)
        sameHour == sameDay /\ hour = start.hour
        minute == IF sameHour THEN m ELSE MinOf(M)
        sameMinute == sameHour /\ minute = start.minute
        second == IF sameMinute THEN s ELSE MinOf(S)
    IN IF ~date.found
          THEN [found |-> FALSE, at |-> Epoch, asked |-> TRUE]
          ELSE [found |-> TRUE, asked |-> TRUE,
                at |-> Instant(date.year, date.month, date.day, hour, minute, second)]

\* a Next that starts the search at the reference instant itself
NextOccurrence_inclusive(e, t) == Search(e, t)

\* Next: the search starts one second after the reference instant
NextOccurrence(e, t) == Search(e, [t EXCEPT !.second = t.second + 1])

\* calendar events and reference instants the occurrence is asked for
CalEvents ==
    [WeekDay : {AnyValue, 1..5, {0}}, Month : {AnyValue, {2}},
     Day : {AnyValue, {1}, {30}}, Hour : {AnyValue, {0, 12}},
     Minute : {{0}, {0, 30}}, Second : {{0}}]
    \cup {NewEvent, [NewEvent EXCEPT !.Minute = {0, 30}],
          [NewEvent EXCEPT !.WeekDay = 1..5, !.Minute = {0, 30}]}

References ==
    {Instant(Epoch.year, date[1], date[2], time[1], time[2], time[3]) :
        date \in {<<1, 1>>, <<1, 31>>, <<2, 28>>, <<12, 31>>},
        time \in {<<9, 15, 0>>, <<9, 30, 0>>, <<11, 59, 59>>, <<23, 59, 59>>}}

----------------------------------------------------------------------------
(* Trigger materializer (schedule_darwin.go)                               *)

\* the zero CalendarInterval that make([]CalendarInterval, total) fills in
CalendarInterval ==
    [Month |-> 0, Day |-> 0, Weekday |-> 0, Hour |-> 0, Minute |-> 0]

permutations(total, num) ==
    IF total = 0 THEN num ELSE total * num

\* spread lays the values of one field over the total entries: entry i takes the
\* value at position (i / blockSize) mod cardinality, blockSize being the product
\* of the cardinalities of the fields that come later in the priority order.
spread(values, total, permutation) ==
    LET blockSize == total \div (permutation * Len(values))
    IN [i \in 1..total |->
            values[(((i - 1) \div (IF blockSize = 0 THEN 1 ELSE blockSize)) % Len(values)) + 1]]

\* "how many entries will I need?": the loop over the five launchd fields
RECURSIVE countEntries(_, _)
countEntries(values, total) ==
    IF values = <<>> THEN total
    ELSE LET value == Head(values)
         IN countEntries(Tail(values),
                IF HasValue(value)
                    THEN permutations(total, Len(GetRangeValues(value)))
                    ELSE total)

getCalendarIntervalsFromSchedule(schedule) ==
    LET values == <<schedule.WeekDay, schedule.Month, schedule.Day,
                    schedule.Hour, schedule.Minute>>
        total == countEntries(values, 0)
        blank == [i \in 1..total |-> CalendarInterval]
    IN IF HasValue(schedule.WeekDay)
          THEN LET line == spread(GetRangeValues(schedule.WeekDay), total, 1)
               IN [i \in 1..total |-> [blank[i] EXCEPT !.Weekday = line[i]]]
          ELSE blank

\* a conversion that keeps the entries of the last schedule only
getCalendarIntervalsFromSchedules_lastOnly(schedules) ==
    IF schedules = <<>> THEN <<>>
    ELSE getCalendarIntervalsFromSchedule(schedules[Len(schedules)])

RECURSIVE getCalendarIntervalsFromSchedules(_)
getCalendarIntervalsFromSchedules(schedules) ==
    IF schedules = <<>> THEN <<>>
    ELSE getCalendarIntervalsFromSchedule(Head(schedules))
            \o getCalendarIntervalsFromSchedules(Tail(schedules))

\* The plist encoding of one entry: every field is tagged omitempty, so a field
\* is written to the record only when its integer is not zero.
PlistKeys(entry) == {f \in DOMAIN entry : entry[f] # 0}

----------------------------------------------------------------------------
(* Job configuration and the native registry                               *)

\* errors are records: what failed, and on what
Error(kind, detail) == [kind |-> kind, detail |-> detail]
nil == Error("nil", "")
ErrorJobCanBeRemovedOnly == Error("job can be removed only", "")
permissionError(action) == Error("permission", action)

SchedulePermissionUser == "user"
SchedulePermissionSystem == "system"
SchedulePermissionAuto == "auto"
Permissions == {SchedulePermissionUser, SchedulePermissionSystem, SchedulePermissionAuto}

\* profile names are sequences of characters
ProfileNames == {<<"b", "k">>, <<"B", "K">>, <<"d", "b">>}

lowerCase ==
    [c \in {"b", "k", "d", "B", "K", "D"} |->
        CASE c = "B" -> "b" [] c = "K" -> "k" [] c = "D" -> "d" [] OTHER -> c]

ToLower(s) == [i \in 1..Len(s) |-> lowerCase[s[i]]]

namePrefix == <<"local.resticprofile.">>

\* a job name that keeps the letter case of the profile name
getJobName_caseSensitive(profileName) == namePrefix \o profileName

getJobName(profileName) == namePrefix \o ToLower(profileName)

JobNames == {getJobName(n) : n \in ProfileNames}

\* calendar.Event.Parse on the raw schedule strings the configurations carry
Parse(schedule) ==
    CASE schedule = "Mon-Fri *-*-* *:0,30:00" ->
            [err |-> nil,
             event |-> [NewEvent EXCEPT !.WeekDay = 1..5, !.Minute = {0, 30}, !.Second = {0}]]
      [] schedule = "Sat *-*-* 0,12:00:00" ->
            [err |-> nil,
             event |-> [NewEvent EXCEPT !.WeekDay = {6}, !.Hour = {0, 12},
                                        !.Minute = {0}, !.Second = {0}]]
      [] schedule = "*-*-01 *:*:*" ->
            [err |-> nil, event |-> [NewEvent EXCEPT !.Day = {1}]]
      [] OTHER ->
            [err |-> Error("parse", schedule), event |-> NewEvent]

\* schedule lists of a configuration: up to MaxSchedules valid strings, then
\* possibly an empty or an unparsable one
ValidSchedules(k) ==
    [i \in 1..k |-> IF i % 2 = 1 THEN "Mon-Fri *-*-* *:0,30:00" ELSE "*-*-01 *:*:*"]

ScheduleLists ==
    {ValidSchedules(k) \o tail :
        k \in 0..MaxSchedules, tail \in {<<>>, <<"">>, <<"every now and then">>}}

\* configurations of the one profile the lifecycle is followed for
Configs ==
    [Name : {<<"B", "K">>}, Schedules : ScheduleLists,
     Permission : Permissions, RemoveOnly : BOOLEAN]

\* an agent file is absent, cut short by a failed encode, or a LaunchJob
LaunchJob(label, profileName, intervals, permission) ==
    [kind |-> "job", Label |-> label, ProgramArguments |-> profileName,
     StartCalendarInterval |-> intervals, Permission |-> permission]
NoFile == [LaunchJob(<<>>, <<>>, <<>>, "") EXCEPT !.kind = "absent"]
Truncated == [LaunchJob(<<>>, <<>>, <<>>, "") EXCEPT !.kind = "truncated"]
IsLaunchJob(file) == file.kind = "job"

----------------------------------------------------------------------------
(* Permission                                                              *)

\* level of the registration that exists for the profile, "" when there is none
ExistingPermission(reg, profileName) ==
    LET file == reg[getJobName(profileName)]
    IN IF IsLaunchJob(file) THEN file.Permission ELSE ""

\* returns <<permission, detected without failure>>
detectSchedulePermission(permission, existing, fails) ==
    IF permission \in {SchedulePermissionUser, SchedulePermissionSystem}
        THEN <<permission, TRUE>>
    ELSE IF fails THEN <<SchedulePermissionUser, FALSE>>
    ELSE IF existing # "" THEN <<existing, TRUE>>
    ELSE <<SchedulePermissionUser, TRUE>>

getSchedulePermission(permission, existing, fails) ==
    detectSchedulePermission(permission, existing, fails)[1]

\* the user level is open to every process, the system level to root only
checkPermission(permission, root) ==
    permission = SchedulePermissionUser \/ root

----------------------------------------------------------------------------
(* launchd handler (schedule_darwin.go)                                    *)

\* a loop that skips a schedule it cannot parse and goes on with the next
RECURSIVE loadLoop_skipsBad(_, _)
loadLoop_skipsBad(schedules, events) ==
    IF schedules = <<>> THEN [events |-> events, err |-> nil]
    ELSE LET schedule == Head(schedules)
         IN IF schedule = "" \/ Parse(schedule).err # nil
               THEN loadLoop_skipsBad(Tail(schedules), events)
               ELSE loadLoop_skipsBad(Tail(schedules),
                        Append(events, Parse(schedule).event))

RECURSIVE loadLoop(_, _)
loadLoop(schedules, events) ==
    IF schedules = <<>> THEN [events |-> events, err |-> nil]
    ELSE LET schedule == Head(schedules)
         IN IF schedule = ""
               THEN [events |-> events, err |-> Error("empty schedule", "")]
               ELSE LET parsed == Parse(schedule)
                    IN IF parsed.err # nil
                          THEN [events |-> events, err |-> parsed.err]
                          ELSE loadLoop(Tail(schedules), Append(events, parsed.event))

loadSchedules(schedules) == loadLoop(schedules, <<>>)

CreateOutcomes == {"ok", "getwd fails", "home fails", "create fails", "encode fails"}

\* a createJob that opens the agent file for appending: the new entries follow
\* the ones already in it
createJob_appends(config, schedules, permission, reg, outcome) ==
    LET name == getJobName(config.Name)
        launchJob ==
            LaunchJob(name, config.Name,
                      reg[name].StartCalendarInterval
                        \o getCalendarIntervalsFromSchedules(schedules), permission)
    IN IF outcome = "ok"
          THEN [err |-> nil, agents |-> [reg EXCEPT ![name] = launchJob]]
          ELSE [err |-> Error(outcome, ""), agents |-> reg]

\* createJob: write the plist agent file of the profile
createJob(config, schedules, permission, reg, outcome) ==
    LET name == getJobName(config.Name)
        launchJob ==
            LaunchJob(name, config.Name,
                      getCalendarIntervalsFromSchedules(schedules), permission)
    IN CASE outcome = "getwd fails" -> [err |-> Error("getwd", ""), agents |-> reg]
         [] outcome = "home fails" -> [err |-> Error("home", ""), agents |-> reg]
         [] outcome = "create fails" -> [err |-> Error("create", ""), agents |-> reg]
         [] outcome = "encode fails" ->
                [err |-> Error("encode", ""), agents |-> [reg EXCEPT ![name] = Truncated]]
         [] OTHER -> [err |-> nil, agents |-> [reg EXCEPT ![name] = launchJob]]

RemoveOutcomes ==
    {"ok", "home fails", "stop fails", "unload fails", "stop and unload fail",
     "remove fails"}

\* the launchctl stop step of RemoveJob and whether it failed
StopStep(outcome) ==
    IF outcome \in {"stop fails", "stop and unload fail"} THEN "stop failed" ELSE "stop"

\* a RemoveJob that deletes the agent file even though unload failed
RemoveJob_removesAnyway(profileName, reg, outcome) ==
    LET name == getJobName(profileName)
    IN IF outcome = "home fails"
          THEN [err |-> Error("home", ""), agents |-> reg, steps |-> <<>>]
       ELSE IF outcome \in {"unload fails", "stop and unload fail"}
          THEN [err |-> Error("unload", ""), agents |-> [reg EXCEPT ![name] = NoFile],
                steps |-> <<StopStep(outcome), "unload failed", "remove">>]
       ELSE IF reg[name].kind = "absent" \/ outcome = "remove fails"
          THEN [err |-> Error("remove", ""), agents |-> reg,
                steps |-> <<StopStep(outcome), "unload", "remove failed">>]
       ELSE [err |-> nil, agents |-> [reg EXCEPT ![name] = NoFile],
             steps |-> <<StopStep(outcome), "unload", "remove">>]

\* RemoveJob: launchctl stop (error ignored), launchctl unload, os.Remove; steps
\* lists what it ran, in order
RemoveJob(profileName, reg, outcome) ==
    LET name == getJobName(profileName)
    IN CASE outcome = "home fails" ->
                [err |-> Error("home", ""), agents |-> reg, steps |-> <<>>]
         [] outcome \in {"unload fails", "stop and unload fail"} ->
                [err |-> Error("unload", ""), agents |-> reg,
                 steps |-> <<StopStep(outcome), "unload failed">>]
         [] reg[name].kind = "absent" ->
                [err |-> Error("remove: no such file", ""), agents |-> reg,
                 steps |-> <<StopStep(outcome), "unload", "remove failed">>]
         [] outcome = "remove fails" ->
                [err |-> Error("remove", ""), agents |-> reg,
                 steps |-> <<StopStep(outcome), "unload", "remove failed">>]
         [] OTHER ->
                [err |-> nil, agents |-> [reg EXCEPT ![name] = NoFile],
                 steps |-> <<StopStep(outcome), "unload", "remove">>]

\* displayStatus: launchctl list
displayStatus(listFails) == IF listFails THEN Error("launchctl list", "") ELSE nil

----------------------------------------------------------------------------
(* Job (job.go)                                                            *)

\* what one verb did: the error it returned, the permission check and handler
\* calls it made in order, and the registry it left
Result(err, calls, reg) == [err |-> err, calls |-> calls, agents |-> reg]

RemoveOnly(j) == j.config.RemoveOnly

\* an Accessible that detects the level without looking at the configured one
Accessible_ignoresConfig(j, reg, detectFails) ==
    checkPermission(
        detectSchedulePermission(SchedulePermissionAuto,
            ExistingPermission(reg, j.config.Name), detectFails)[1],
        j.root)

Accessible(j, reg, detectFails) ==
    LET permission ==
            detectSchedulePermission(j.config.Permission,
                ExistingPermission(reg, j.config.Name), detectFails)[1]
    IN checkPermission(permission, j.root)

CreateExt == [detectFails : BOOLEAN, displayFails : BOOLEAN, outcome : CreateOutcomes]

Called(r, call) == \E i \in DOMAIN r.calls : r.calls[i] = call

After(call, r) == [r EXCEPT !.calls = <<call>> \o r.calls]

\* Create from ParseSchedules on: parse, display, install
CreateInstall(j, reg, ext, permission) ==
    LET parsed == loadSchedules(j.config.Schedules)
        created == createJob(j.config, parsed.events, permission, reg, ext.outcome)
    IN IF parsed.err # nil
          THEN Result(parsed.err, <<"ParseSchedules">>, reg)
       ELSE IF Len(parsed.events) > 0
          THEN Result(created.err,
                  <<"ParseSchedules", "DisplayParsedSchedules", "CreateJob">>,
                  created.agents)
       ELSE IF ext.displayFails
          THEN Result(Error("display", ""), <<"ParseSchedules", "DisplaySchedules">>, reg)
       ELSE Result(created.err,
                  <<"ParseSchedules", "DisplaySchedules", "CreateJob">>, created.agents)

\* a Create that goes on to parse and install after a failed permission check
CreatePermitted_noAbort(j, reg, ext) ==
    After("checkPermission",
        CreateInstall(j, reg, ext,
            getSchedulePermission(j.config.Permission,
                ExistingPermission(reg, j.config.Name), ext.detectFails)))

\* Create past the remove-only gate: permission check, then the rest
CreatePermitted(j, reg, ext) ==
    LET permission ==
            getSchedulePermission(j.config.Permission,
                ExistingPermission(reg, j.config.Name), ext.detectFails)
        ok == checkPermission(permission, j.root)
    IN IF ~ok
          THEN Result(permissionError("create"), <<"checkPermission">>, reg)
          ELSE After("checkPermission", CreateInstall(j, reg, ext, permission))

\* a Create without the remove-only gate
Create_noRemoveOnlyGate(j, reg, ext) == CreatePermitted(j, reg, ext)

Create(j, reg, ext) ==
    IF RemoveOnly(j)
        THEN Result(ErrorJobCanBeRemovedOnly, <<>>, reg)
        ELSE CreatePermitted(j, reg, ext)

RemoveExt == [detectFails : BOOLEAN, outcome : RemoveOutcomes]

\* a Remove that returns the failure of the permission detection
Remove_detectionSurfaced(j, reg, ext) ==
    LET existing == ExistingPermission(reg, j.config.Name)
        detected == detectSchedulePermission(j.config.Permission, existing, ext.detectFails)
        removed == RemoveJob(j.config.Name, reg, ext.outcome)
    IN IF ~detected[2]
          THEN Result(Error("detect", ""), <<"checkPermission">>, reg)
       ELSE IF ~checkPermission(detected[1], j.root)
          THEN Result(permissionError("remove"), <<"checkPermission">>, reg)
          ELSE Result(removed.err, <<"checkPermission", "RemoveJob">>, removed.agents)

\* a Remove that checks the configured level as it is, without resolving "auto"
Remove_skipsDetection(j, reg, ext) ==
    LET removed == RemoveJob(j.config.Name, reg, ext.outcome)
    IN IF ~checkPermission(j.config.Permission, j.root)
          THEN Result(permissionError("remove"), <<"checkPermission">>, reg)
          ELSE Result(removed.err, <<"checkPermission", "RemoveJob">>, removed.agents)

Remove(j, reg, ext) ==
    LET existing == ExistingPermission(reg, j.config.Name)
        permission ==
            IF RemoveOnly(j)
                THEN detectSchedulePermission(j.config.Permission, existing,
                                              ext.detectFails)[1]
                ELSE getSchedulePermission(j.config.Permission, existing,
                                           ext.detectFails)
        ok == checkPermission(permission, j.root)
        removed == RemoveJob(j.config.Name, reg, ext.outcome)
    IN IF ~ok
          THEN Result(permissionError("remove"), <<"checkPermission">>, reg)
          ELSE Result(removed.err, <<"checkPermission", "RemoveJob">>, removed.agents)

StatusExt == [displayFails : BOOLEAN, listFails : BOOLEAN]

\* a Status that installs the schedules it has parsed before displaying the job
Status_installs(j, reg, ext) ==
    LET parsed == loadSchedules(j.config.Schedules)
        created == createJob(j.config, parsed.events, SchedulePermissionUser, reg, "ok")
    IN IF RemoveOnly(j) THEN Result(ErrorJobCanBeRemovedOnly, <<>>, reg)
       ELSE IF parsed.err # nil THEN Result(parsed.err, <<"ParseSchedules">>, reg)
       ELSE Result(displayStatus(ext.listFails),
               <<"ParseSchedules", "DisplayParsedSchedules", "CreateJob", "DisplayJobStatus">>,
               created.agents)

Status(j, reg, ext) ==
    IF RemoveOnly(j) THEN Result(ErrorJobCanBeRemovedOnly, <<>>, reg)
    ELSE
    LET parsed == loadSchedules(j.config.Schedules)
    IN IF parsed.err # nil
          THEN Result(parsed.err, <<"ParseSchedules">>, reg)
       ELSE IF Len(parsed.events) > 0
          THEN Result(displayStatus(ext.listFails),
                  <<"ParseSchedules", "DisplayParsedSchedules", "DisplayJobStatus">>, reg)
       ELSE IF ext.displayFails
          THEN Result(Error("display", ""), <<"ParseSchedules", "DisplaySchedules">>, reg)
       ELSE Result(displayStatus(ext.listFails),
                  <<"ParseSchedules", "DisplaySchedules", "DisplayJobStatus">>, reg)

----------------------------------------------------------------------------
(* Job lifecycle: one invocation builds a Job and runs one verb on it      *)

Jobs == [config : Configs, root : BOOLEAN]

\* the verb run last: its error and calls, whether permission detection failed
\* in it, what the profile's agent file was before it ran and for which profile
\* it had been written, and the steps RemoveJob ran when it was called
Outcome(op, r, detectFails, answer, reg, j) ==
    [op |-> op, err |-> r.err, calls |-> r.calls,
     detectFailed |->
        /\ Called(r, "checkPermission")
        /\ ~detectSchedulePermission(j.config.Permission,
                ExistingPermission(reg, j.config.Name), detectFails)[2],
     accessible |-> answer, before |-> reg[getJobName(j.config.Name)].kind,
     owner |-> reg[getJobName(j.config.Name)].ProgramArguments, steps |-> <<>>]

NoOutcome ==
    [op |-> "none", err |-> nil, calls |-> <<>>, detectFailed |-> FALSE,
     accessible |-> FALSE, before |-> "absent", owner |-> <<>>, steps |-> <<>>]

JobInit ==
    /\ job \in Jobs
    /\ agents = [n \in JobNames |-> NoFile]
    /\ last = NoOutcome

\* a new invocation: the Job is built again from the configuration
NewJob ==
    /\ job' \in Jobs
    /\ last' = NoOutcome
    /\ UNCHANGED <<agents, matVars, calVars, lockVars>>

\* an Accessible that stores the level it detected in the job configuration
DoAccessible_storesPermission ==
    \E detectFails \in BOOLEAN :
        /\ last' = Outcome("Accessible", Result(nil, <<"checkPermission">>, agents),
                           detectFails, Accessible(job, agents, detectFails), agents, job)
        /\ job' = [job EXCEPT !.config.Permission =
                        detectSchedulePermission(job.config.Permission,
                            ExistingPermission(agents, job.config.Name), detectFails)[1]]
        /\ UNCHANGED <<agents, matVars, calVars, lockVars>>

DoAccessible ==
    \E detectFails \in BOOLEAN :
        /\ last' = Outcome("Accessible", Result(nil, <<"checkPermission">>, agents),
                           detectFails, Accessible(job, agents, detectFails), agents, job)
        /\ UNCHANGED <<job, agents, matVars, calVars, lockVars>>

DoCreate ==
    \E ext \in CreateExt :
        LET r == Create(job, agents, ext)
        IN /\ agents' = r.agents
           /\ last' = Outcome("Create", r, ext.detectFails, FALSE, agents, job)
           /\ UNCHANGED <<job, matVars, calVars, lockVars>>

DoRemove ==
    \E ext \in RemoveExt :
        LET r == Remove(job, agents, ext)
        IN /\ agents' = r.agents
           /\ last' = [Outcome("Remove", r, ext.detectFails, FALSE, agents, job)
                        EXCEPT !.steps =
                            IF Called(r, "RemoveJob")
                                THEN RemoveJob(job.config.Name, agents, ext.outcome).steps
                                ELSE <<>>]
           /\ UNCHANGED <<job, matVars, calVars, lockVars>>

DoStatus ==
    \E ext \in StatusExt :
        LET r == Status(job, agents, ext)
        IN /\ agents' = r.agents
           /\ last' = Outcome("Status", r, FALSE, FALSE, agents, job)
           /\ UNCHANGED <<job, matVars, calVars, lockVars>>

JobNext == NewJob \/ DoAccessible \/ DoCreate \/ DoRemove \/ DoStatus

----------------------------------------------------------------------------
(* Lock (package lock): a marker file created exclusively at the lock path *)

Handles == 1..NumHandles

NoMarker == [present |-> FALSE, user |-> "", host |-> "", pid |-> 0, time |-> 0]

\* owner metadata written into the marker: user, host, timestamp, process id
OwnerMarker(h, now) ==
    [present |-> TRUE, user |-> "user", host |-> "host", pid |-> h, time |-> now]

\* a TryAcquire that creates the marker without O_EXCL, over an existing one
TryAcquire_overwrite(h, mk, lk, now) ==
    [ret |-> TRUE, marker |-> OwnerMarker(h, now),
     locks |-> [lk EXCEPT ![h].locked = TRUE]]

\* a TryAcquire that takes over a marker older than one tick
TryAcquire_expiring(h, mk, lk, now) ==
    IF mk.present /\ now <= mk.time
        THEN [ret |-> FALSE, marker |-> mk, locks |-> lk]
        ELSE [ret |-> TRUE, marker |-> OwnerMarker(h, now),
              locks |-> [lk EXCEPT ![h].locked = TRUE]]

\* TryAcquire: exclusive create of the marker; true iff this call created it
TryAcquire(h, mk, lk, now) ==
    IF mk.present
        THEN [ret |-> FALSE, marker |-> mk, locks |-> lk]
        ELSE [ret |-> TRUE, marker |-> OwnerMarker(h, now),
              locks |-> [lk EXCEPT ![h].locked = TRUE]]

\* a Release that forgets the handle's flag but leaves the marker file
Release_leavesMarker(h, mk, lk) ==
    [marker |-> mk, locks |-> [lk EXCEPT ![h].locked = FALSE]]

\* a Release that deletes the marker whoever holds it
Release_unconditional(h, mk, lk) ==
    [marker |-> NoMarker, locks |-> [lk EXCEPT ![h].locked = FALSE]]

\* Release: remove the marker if this handle holds it, otherwise do nothing
Release(h, mk, lk) ==
    IF lk[h].locked /\ mk.present /\ mk.pid = h
        THEN [marker |-> NoMarker, locks |-> [lk EXCEPT ![h].locked = FALSE]]
        ELSE [marker |-> mk, locks |-> lk]

\* Who: "<user> on <host>, <timestamp> from <path>" read from the marker
Who(mk) ==
    IF mk.present
        THEN [who |-> <<mk.user, "on", mk.host, mk.time, "from", "lockfile">>,
              err |-> nil]
        ELSE [who |-> <<>>, err |-> Error("open", "lockfile")]

Holds(h) == locks[h].alive /\ locks[h].locked

\* the lock operation run last: handle, result, and the marker it found
LockOutcome(op, h, ret, w, mk) ==
    [op |-> op, h |-> h, ret |-> ret, who |-> w.who, err |-> w.err, found |-> mk]

NoLockOp == LockOutcome("none", 0, FALSE, [who |-> <<>>, err |-> nil], NoMarker)

DoTryAcquire(h) ==
    /\ locks[h].alive
    /\ LET r == TryAcquire(h, marker, locks, clock)
       IN /\ marker' = r.marker
          /\ locks' = r.locks
          /\ lockop' = LockOutcome("TryAcquire", h, r.ret, [who |-> <<>>, err |-> nil], marker)
    /\ UNCHANGED <<clock, jobVars, matVars, calVars>>

DoRelease(h) ==
    /\ locks[h].alive
    /\ LET r == Release(h, marker, locks)
       IN /\ marker' = r.marker
          /\ locks' = r.locks
          /\ lockop' = LockOutcome("Release", h, FALSE, [who |-> <<>>, err |-> nil], marker)
    /\ UNCHANGED <<clock, jobVars, matVars, calVars>>

DoWho(h) ==
    /\ locks[h].alive
    /\ lockop' = LockOutcome("Who", h, FALSE, Who(marker), marker)
    /\ UNCHANGED <<marker, locks, clock, jobVars, matVars, calVars>>

\* the process behind a handle dies without calling Release
Crash(h) ==
    /\ locks[h].alive
    /\ locks' = [locks EXCEPT ![h].alive = FALSE]
    /\ lockop' = LockOutcome("Crash", h, FALSE, [who |-> <<>>, err |-> nil], marker)
    /\ UNCHANGED <<marker, clock, jobVars, matVars, calVars>>

\* an operator or supervisor deletes the marker a dead process left behind
ClearStale ==
    /\ marker.present
    /\ ~locks[marker.pid].alive
    /\ marker' = NoMarker
    /\ lockop' = LockOutcome("ClearStale", 0, FALSE, [who |-> <<>>, err |-> nil], marker)
    /\ UNCHANGED <<locks, clock, jobVars, matVars, calVars>>

Tick ==
    /\ clock < MaxTime
    /\ clock' = clock + 1
    /\ UNCHANGED <<marker, locks, lockop, jobVars, matVars, calVars>>

LockNext ==
    \/ \E h \in Handles : DoTryAcquire(h)
    \/ \E h \in Handles : DoRelease(h)
    \/ \E h \in Handles : DoWho(h)
    \/ \E h \in Handles : Crash(h)
    \/ ClearStale
    \/ Tick

Init ==
    /\ JobInit
    /\ event = NewEvent /\ entries = <<>> /\ mpc = "idle" /\ rules = <<>>
    /\ from = Epoch /\ occurrence = NoOccurrence
    /\ marker = NoMarker
    /\ locks = [h \in Handles |-> [locked |-> FALSE, alive |-> TRUE]]
    /\ lockop = NoLockOp
    /\ clock = 0

Next == JobNext

Spec == Init /\ [][Next]_vars

----------------------------------------------------------------------------
(* Materializer on its own: every event of the bounded sets is materialized *)

Materialize ==
    /\ mpc = "idle"
    /\ entries' = getCalendarIntervalsFromSchedule(event)
    /\ mpc' = "done"
    /\ UNCHANGED <<event, rules, jobVars, calVars, lockVars>>

MatInit ==
    /\ event \in Events /\ entries = <<>> /\ mpc = "idle" /\ rules = <<>>
    /\ from = Epoch /\ occurrence = NoOccurrence
    /\ job = [config |-> [Name |-> <<"B", "K">>, Schedules |-> <<>>,
                          Permission |-> SchedulePermissionAuto, RemoveOnly |-> FALSE],
              root |-> FALSE]
    /\ agents = [n \in JobNames |-> NoFile]
    /\ last = NoOutcome
    /\ marker = NoMarker
    /\ locks = [h \in Handles |-> [locked |-> FALSE, alive |-> TRUE]]
    /\ lockop = NoLockOp
    /\ clock = 0

MatNext == Materialize

MatSpec == MatInit /\ [][MatNext]_vars

LockInit == MatInit /\ event = NewEvent

----------------------------------------------------------------------------
(* Job lifecycle over several profiles: which agent file a profile owns    *)

\* one job per profile name, installed at the user level
ProfileJobs ==
    [config : [Name : ProfileNames, Schedules : {ValidSchedules(1)},
               Permission : {SchedulePermissionUser}, RemoveOnly : {FALSE}],
     root : {FALSE}]

NewProfile ==
    /\ job' \in ProfileJobs
    /\ last' = NoOutcome
    /\ UNCHANGED <<agents, matVars, calVars, lockVars>>

NameInit ==
    /\ job \in ProfileJobs
    /\ agents = [n \in JobNames |-> NoFile]
    /\ last = NoOutcome
    /\ event = NewEvent /\ entries = <<>> /\ mpc = "idle" /\ rules = <<>>
    /\ from = Epoch /\ occurrence = NoOccurrence
    /\ marker = NoMarker
    /\ locks = [h \in Handles |-> [locked |-> FALSE, alive |-> TRUE]]
    /\ lockop = NoLockOp
    /\ clock = 0

NameNext == NewProfile \/ DoCreate \/ DoRemove

NameSpec == NameInit /\ [][NameNext]_vars

----------------------------------------------------------------------------
(* Occurrence calculator on its own                                        *)

AskNext ==
    /\ ~occurrence.asked
    /\ occurrence' = NextOccurrence(event, from)
    /\ UNCHANGED <<from, jobVars, matVars, lockVars>>

CalInit ==
    /\ event \in CalEvents /\ from \in References
    /\ occurrence = NoOccurrence
    /\ entries = <<>> /\ mpc = "idle" /\ rules = <<>>
    /\ job = [config |-> [Name |-> <<"B", "K">>, Schedules |-> <<>>,
                          Permission |-> SchedulePermissionAuto, RemoveOnly |-> FALSE],
              root |-> FALSE]
    /\ agents = [n \in JobNames |-> NoFile]
    /\ last = NoOutcome
    /\ marker = NoMarker
    /\ locks = [h \in Handles |-> [locked |-> FALSE, alive |-> TRUE]]
    /\ lockop = NoLockOp
    /\ clock = 0

CalNext == AskNext

CalSpec == CalInit /\ [][CalNext]_vars

----------------------------------------------------------------------------
(* Materializer on lists of events                                         *)

\* the three rules of the comment on getCalendarIntervalsFromSchedules
DocumentedRules ==
    <<Parse("Mon-Fri *-*-* *:0,30:00").event,
      Parse("Sat *-*-* 0,12:00:00").event,
      Parse("*-*-01 *:*:*").event>>

RuleLists ==
    UNION {[1..k -> {DocumentedRules[i] : i \in 1..3} \cup {NewEvent}] : k \in 0..MaxRules}

MaterializeAll ==
    /\ mpc = "idle"
    /\ entries' = getCalendarIntervalsFromSchedules(rules)
    /\ mpc' = "listed"
    /\ UNCHANGED <<event, rules, jobVars, calVars, lockVars>>

ListInit ==
    /\ rules \in RuleLists
    /\ event = NewEvent /\ entries = <<>> /\ mpc = "idle"
    /\ from = Epoch /\ occurrence = NoOccurrence
    /\ job = [config |-> [Name |-> <<"B", "K">>, Schedules |-> <<>>,
                          Permission |-> SchedulePermissionAuto, RemoveOnly |-> FALSE],
              root |-> FALSE]
    /\ agents = [n \in JobNames |-> NoFile]
    /\ last = NoOutcome
    /\ marker = NoMarker
    /\ locks = [h \in Handles |-> [locked |-> FALSE, alive |-> TRUE]]
    /\ lockop = NoLockOp
    /\ clock = 0

ListNext == MaterializeAll

ListSpec == ListInit /\ [][ListNext]_vars

LockSpec == LockInit /\ [][LockNext]_vars

----------------------------------------------------------------------------
(* Properties of the Job lifecycle (checked under Spec)                    *)

JobFile == agents[getJobName(job.config.Name)]

AllParse(schedules) ==
    \A i \in DOMAIN schedules : schedules[i] # "" /\ Parse(schedules[i]).err = nil

\* the process may act at the level the configuration resolves to, given the
\* registry reg and whether detection failed
Sufficient(j, reg, detectFailed) ==
    \/ j.root
    \/ j.config.Permission = SchedulePermissionUser
    \/ /\ j.config.Permission = SchedulePermissionAuto
       /\ detectFailed \/ ExistingPermission(reg, j.config.Name) # SchedulePermissionSystem

C2_CreateFailsFast ==
    [][last'.op = "Create" =>
        /\ Called(last', "CreateJob") =>
            /\ last'.calls \in
                {<<"checkPermission", "ParseSchedules", "DisplayParsedSchedules", "CreateJob">>,
                 <<"checkPermission", "ParseSchedules", "DisplaySchedules", "CreateJob">>}
            /\ ~job.config.RemoveOnly
            /\ Sufficient(job, agents, last'.detectFailed)
            /\ AllParse(job.config.Schedules)
            /\ last'.err.kind \notin
                {"job can be removed only", "permission", "parse", "empty schedule", "display"}
        /\ ~Called(last', "CreateJob") => last'.err # nil /\ agents' = agents
      ]_vars

C2_Witness ==
    /\ last.op = "Create" /\ last.err.kind = "parse"
    /\ last.before = "job" /\ JobFile.kind = "job"
    /\ ~Called(last, "CreateJob")

\* C3 as stated: Remove() of a profile that has no registration, when neither
\* the home directory lookup nor launchctl fails, returns no error and leaves
\* the profile unregistered.
C3_RemoveAbsentSucceeds ==
    (/\ last.op = "Remove" /\ last.before = "absent"
     /\ Called(last, "RemoveJob")
     /\ last.err.kind \notin {"home", "unload"})
        => last.err = nil /\ JobFile.kind = "absent"

\* C4: Remove() on a job that is not remove-only, run without the privilege of
\* the resolved level, returns the permission error, does not call RemoveJob and
\* leaves the registry alone; Remove() on a remove-only job in which permission
\* detection failed returns either the permission error or what RemoveJob
\* returned, never the detection failure.
C4_RemovePermission ==
    [][last'.op = "Remove" =>
        /\ (~job.config.RemoveOnly /\ ~Sufficient(job, agents, last'.detectFailed)) =>
            /\ last'.err = permissionError("remove")
            /\ ~Called(last', "RemoveJob")
            /\ agents' = agents
        /\ (job.config.RemoveOnly /\ last'.detectFailed) =>
            /\ last'.err.kind # "detect"
            /\ \/ Called(last', "RemoveJob")
               \/ last'.err = permissionError("remove")
      ]_vars

C4_Witness ==
    /\ job.config.RemoveOnly
    /\ last.op = "Remove" /\ last.detectFailed
    /\ last.before = "job" /\ Called(last, "RemoveJob") /\ last.err = nil

----------------------------------------------------------------------------
(* Properties of the lock (checked under LockSpec)                         *)

Holders == {h \in Handles : Holds(h)}

\* C5: at most one live handle holds the lock, the holder is the handle whose
\* marker is in place, and a TryAcquire returns true exactly when it found no
\* marker and created its own.
C5_MutualExclusion ==
    /\ Cardinality(Holders) <= 1
    /\ \A h \in Holders : marker.present /\ marker.pid = h
    /\ lockop.op = "TryAcquire" =>
        /\ lockop.ret <=> ~lockop.found.present
        /\ lockop.ret => marker.present /\ marker.pid = lockop.h

C5_Witness ==
    /\ lockop.op = "TryAcquire" /\ ~lockop.ret
    /\ \E h \in Holders : h # lockop.h
    /\ \E h \in Handles : h \notin Holders /\ h # lockop.h /\ locks[h].alive

\* C6: TryAcquire on a free path returns true; while another handle holds the
\* lock TryAcquire returns false and Who() returns, without error, a non-empty
\* description of the holder; the TryAcquire that follows the holder's Release()
\* returns true.
C6_LockSequence ==
    /\ [](/\ (lockop.op = "TryAcquire" /\ ~lockop.found.present) => lockop.ret
          /\ (lockop.op = "TryAcquire" /\ Holders \ {lockop.h} # {}) => ~lockop.ret
          /\ (lockop.op = "Who" /\ Holders \ {lockop.h} # {}) =>
                /\ lockop.err = nil
                /\ lockop.who # <<>>
                /\ lockop.who[1] = marker.user /\ lockop.who[3] = marker.host)
    /\ [][\A h \in Handles :
            (/\ lockop.op = "Release" /\ lockop.found.present
             /\ lockop.found.pid = lockop.h
             /\ DoTryAcquire(h)) => lockop'.ret]_vars

C6_Witness ==
    /\ lockop.op = "Who" /\ Holders \ {lockop.h} # {}
    /\ lockop.who # <<>>

\* C7: Release() on the handle that holds the lock removes the marker; Release()
\* on a handle that does not hold it changes nothing, so the marker of another
\* holder stays and that holder still holds the lock.
C7_ReleaseOnlyByHolder ==
    [][\A h \in Handles : DoRelease(h) =>
            IF Holds(h)
                THEN ~marker'.present /\ ~locks'[h].locked
                ELSE /\ marker' = marker
                     /\ locks' = locks
                     /\ \A g \in Holders : locks'[g].alive /\ locks'[g].locked
      ]_vars

C7_Witness ==
    /\ lockop.op = "Release"
    /\ lockop.found.present /\ lockop.found.pid # lockop.h
    /\ marker = lockop.found
    /\ Holds(marker.pid)

\* C8: the marker of a process that died without Release() stays in place as
\* time passes, only an outside removal takes it away, and until then every
\* TryAcquire returns false.
C8_NoExpiry ==
    [][(marker.present /\ ~locks[marker.pid].alive) =>
            /\ marker' # marker => ClearStale
            /\ \A h \in Handles : DoTryAcquire(h) => ~lockop'.ret
      ]_vars

C8_Witness ==
    /\ marker.present /\ ~locks[marker.pid].alive
    /\ clock > marker.time
    /\ lockop.op = "TryAcquire" /\ ~lockop.ret /\ lockop.found = marker

----------------------------------------------------------------------------
(* Properties of the materializer (checked under MatSpec)                  *)

Fields == {"WeekDay", "Month", "Day", "Hour", "Minute", "Second"}

RECURSIVE ProductOver(_, _)
ProductOver(F, schedule) ==
    IF F = {} THEN 1
    ELSE LET f == CHOOSE x \in F : TRUE
             n == Cardinality(schedule[f])
         IN (IF n > 1 THEN n ELSE 1) * ProductOver(F \ {f}, schedule)

\* C9 as stated: the number of entries is the product of the cardinalities of
\* the fields with more than one concrete value, and 1 when there is no such
\* field.
C9_EntryCount ==
    mpc = "done" => Len(entries) = ProductOver(Fields, event)

\* C10 as stated: Monday to Friday at minutes 0 and 30 of every hour gives 10
\* entries, one for each (weekday, minute) pair, none with an hour.
C10_MonFriHalfHourly ==
    (/\ mpc = "done"
     /\ event.WeekDay = 1..5 /\ event.Minute = {0, 30}
     /\ event.Month = AnyValue /\ event.Day = AnyValue /\ event.Hour = AnyValue)
        => /\ Len(entries) = 10
           /\ {<<entries[i].Weekday, entries[i].Minute>> : i \in DOMAIN entries}
                = (1..5) \X {0, 30}
           /\ \A i \in DOMAIN entries : "Hour" \notin PlistKeys(entries[i])

----------------------------------------------------------------------------
(* Properties of the Job verbs, continued (checked under Spec)             *)

\* the level the configuration resolves to: the explicit one; with "auto" the
\* level of the existing registration; the user level when there is none or
\* the detection failed
ResolvedLevel(j, reg, detectFailed) ==
    IF j.config.Permission # SchedulePermissionAuto THEN j.config.Permission
    ELSE IF ~detectFailed /\ ExistingPermission(reg, j.config.Name) # ""
        THEN ExistingPermission(reg, j.config.Name)
    ELSE SchedulePermissionUser

\* C14: Accessible(), Create() and Remove() all decide on the resolved level: an
\* explicit level whatever the detection says, with "auto" the level of the
\* existing registration, otherwise the user level. Accessible() answers
\* whether the process may act at that level, Create() and Remove() return the
\* permission error exactly when it may not, and a successful Create() installs
\* at that level.
C14_PermissionPrecedence ==
    [][LET level == ResolvedLevel(job, agents, last'.detectFailed)
           may == level = SchedulePermissionUser \/ job.root
       IN /\ last'.op = "Accessible" => last'.accessible = may
          /\ (last'.op = "Create" /\ ~job.config.RemoveOnly) =>
                /\ last'.err = permissionError("create") <=> ~may
                /\ (Called(last', "CreateJob") /\ last'.err = nil) =>
                        agents'[getJobName(job.config.Name)].Permission = level
          /\ last'.op = "Remove" =>
                (last'.err = permissionError("remove") <=> ~may)]_vars

C14_Witness ==
    /\ last.op = "Create" /\ last.err = nil /\ last.before = "job"
    /\ job.config.Permission = SchedulePermissionAuto /\ job.root
    /\ ~last.detectFailed
    /\ JobFile.Permission = SchedulePermissionSystem

\* C15: Status() changes no registration and calls neither CreateJob nor
\* RemoveJob in any outcome; on a job that is not remove-only it parses, then
\* displays, then calls DisplayJobStatus and returns that call's error as it is.
C15_StatusReadOnly ==
    [][last'.op = "Status" =>
        /\ agents' = agents
        /\ ~Called(last', "CreateJob") /\ ~Called(last', "RemoveJob")
        /\ ~job.config.RemoveOnly =>
            /\ Len(last'.calls) >= 1 /\ last'.calls[1] = "ParseSchedules"
            /\ (AllParse(job.config.Schedules) /\ last'.err.kind # "display") =>
                    /\ Len(last'.calls) = 3
                    /\ last'.calls[2] \in {"DisplayParsedSchedules", "DisplaySchedules"}
                    /\ last'.calls[3] = "DisplayJobStatus"
                    /\ last'.err \in {nil, displayStatus(TRUE)}
            /\ Called(last', "DisplayJobStatus") => Len(last'.calls) = 3]_vars

C15_Witness ==
    /\ last.op = "Status" /\ ~job.config.RemoveOnly
    /\ Called(last, "DisplayJobStatus") /\ last.err = displayStatus(TRUE)
    /\ last.before = "job" /\ IsLaunchJob(JobFile)

\* C16: Accessible() is a pure predicate: it answers whether the privilege of
\* the process satisfies the resolved permission level and changes neither the
\* job configuration nor the registrations, whatever the flags of the job and
\* whether or not the detection failed.
C16_AccessiblePure ==
    [][last'.op = "Accessible" =>
        /\ job' = job /\ agents' = agents
        /\ last'.accessible <=> Sufficient(job, agents, last'.detectFailed)]_vars

C16_Witness ==
    /\ last.op = "Accessible" /\ last.detectFailed /\ last.accessible
    /\ job.config.RemoveOnly /\ ~job.root
    /\ IsLaunchJob(JobFile) /\ JobFile.Permission = SchedulePermissionSystem

\* what the agent file holds: the LaunchJob that createJob encodes
Plist(file) ==
    [kind |-> file.kind, Label |-> file.Label,
     ProgramArguments |-> file.ProgramArguments,
     StartCalendarInterval |-> file.StartCalendarInterval]

\* C17: CreateJob overwrites per job identity: after a Create() that succeeds
\* the registration of the job is the LaunchJob of this call, its triggers
\* exactly the entries materialized from the schedules of this call, whatever
\* was registered before, and no other registration changes; a second
\* successful Create() with the same configuration leaves the registration that
\* the first one left.
C17_CreateOverwrites ==
    [][(last'.op = "Create" /\ last'.err = nil) =>
        LET name == getJobName(job.config.Name)
            parsed == loadSchedules(job.config.Schedules)
        IN /\ IsLaunchJob(agents'[name])
           /\ agents'[name].Label = name
           /\ agents'[name].StartCalendarInterval
                = getCalendarIntervalsFromSchedules(parsed.events)
           /\ \A n \in JobNames \ {name} : agents'[n] = agents[n]
           /\ (last.op = "Create" /\ last.err = nil) =>
                    Plist(agents'[name]) = Plist(agents[name])]_vars

C17_Witness ==
    /\ last.op = "Create" /\ last.err = nil /\ last.before = "job"
    /\ Len(job.config.Schedules) = MaxSchedules
    /\ Len(JobFile.StartCalendarInterval) > 0

\* C18: schedule parsing is all-or-nothing: when one raw schedule of the job is
\* empty or does not parse, Create() and Status() that reach the parsing return
\* its error, make no further call, and no schedule of the job, not even one
\* parsed before the failing one, is installed: the registrations stay as they
\* were.
C18_ParseAllOrNothing ==
    [][(/\ last'.op \in {"Create", "Status"}
        /\ Called(last', "ParseSchedules")
        /\ ~AllParse(job.config.Schedules)) =>
            /\ last'.err.kind \in {"parse", "empty schedule"}
            /\ last'.calls[Len(last'.calls)] = "ParseSchedules"
            /\ agents' = agents]_vars

C18_Witness ==
    /\ last.op = "Create" /\ last.err.kind = "parse"
    /\ Len(job.config.Schedules) > 1
    /\ AllParse(SubSeq(job.config.Schedules, 1, Len(job.config.Schedules) - 1))
    /\ last.before = "job" /\ IsLaunchJob(JobFile)

\* C20 as stated: the registration of the job is present exactly when the last
\* call that reached CreateJob or RemoveJob successfully was a Create: a Create()
\* whose CreateJob succeeded leaves it present, a Remove() whose RemoveJob
\* succeeded leaves it absent, and every other call (one stopped at the
\* remove-only, permission or parse step, or one whose handler call failed)
\* leaves the registration exactly as it was.
C20_LastHandlerCallDecides ==
    [][last'.op \in {"Create", "Remove", "Status"} =>
        LET name == getJobName(job.config.Name)
            done == last'.err = nil
        IN /\ (last'.op = "Create" /\ Called(last', "CreateJob") /\ done) =>
                    IsLaunchJob(agents'[name])
           /\ (last'.op = "Remove" /\ Called(last', "RemoveJob") /\ done) =>
                    agents'[name] = NoFile
           /\ ~(done /\ (Called(last', "CreateJob") \/ Called(last', "RemoveJob"))) =>
                    agents' = agents]_vars

----------------------------------------------------------------------------
(* Properties of the occurrence calculator (checked under CalSpec)         *)

\* x is strictly later than t
Later(x, t) ==
    LET a == <<x.year, x.month, x.day, x.hour, x.minute, x.second>>
        b == <<t.year, t.month, t.day, t.hour, t.minute, t.second>>
    IN \E i \in 1..6 : a[i] > b[i] /\ \A j \in 1..(i - 1) : a[j] = b[j]

\* the instants of the given years that satisfy e and lie strictly between t and n
Between(e, t, n, years) ==
    {x \in UNION {[year : {y}, month : {m}, day : {d}, hour : Allowed(e.Hour, Hours),
                   minute : Allowed(e.Minute, Minutes),
                   second : Allowed(e.Second, Seconds)] :
                    <<y, m, d>> \in
                        {c \in years \X Months \X Days :
                            /\ DateMatches(e, c[1], c[2], c[3])
                            /\ ~Later(Instant(t.year, t.month, t.day, 0, 0, 0),
                                      Instant(c[1], c[2], c[3], 0, 0, 0))
                            /\ ~Later(Instant(c[1], c[2], c[3], 0, 0, 0),
                                      Instant(n.year, n.month, n.day, 0, 0, 0))}} :
        Later(x, t) /\ Later(n, x)}

\* the last instant Next looks at from t
Horizon(t) == Instant(t.year + MaxYearsAhead + 1, 1, 1, 0, 0, 0)

MondayHalfHour ==
    (/\ event.WeekDay = 1..5 /\ event.Minute = {0, 30}
     /\ event.Month = AnyValue /\ event.Day = AnyValue /\ event.Hour = AnyValue
     /\ from = Instant(2018, 1, 1, 9, 15, 0))
        => occurrence.found /\ occurrence.at = Instant(2018, 1, 1, 9, 30, 0)

\* C13 as stated: for every valid expression e and instant t, Next(e, t) is
\* strictly later than t, satisfies every constrained field of e, and no
\* instant strictly between t and Next(e, t) satisfies e; from Monday 09:15:00,
\* Monday to Friday at minutes 0 and 30 gives 09:30:00 of the same Monday.
C13_NextAlwaysExists ==
    occurrence.asked =>
        /\ occurrence.found
        /\ Later(occurrence.at, from)
        /\ Match(event, occurrence.at)
        /\ Between(event, from, occurrence.at, from.year..occurrence.at.year) = {}
        /\ MondayHalfHour

\* C13 amended: when Next finds an occurrence it is strictly later than t,
\* satisfies every constrained field of e, and no instant strictly between
\* satisfies e; it finds none only when no instant after t up to the end of the
\* search horizon satisfies e. From Monday 09:15:00, Monday to Friday at minutes
\* 0 and 30 gives 09:30:00 of the same Monday.
C13_NextIsLeastWithinHorizon ==
    occurrence.asked =>
        /\ occurrence.found =>
            /\ Later(occurrence.at, from)
            /\ Match(event, occurrence.at)
            /\ Between(event, from, occurrence.at, from.year..occurrence.at.year) = {}
        /\ ~occurrence.found =>
            Between(event, from, Horizon(from),
                    from.year..(from.year + MaxYearsAhead)) = {}
        /\ MondayHalfHour

C13_Witness ==
    /\ occurrence.asked /\ occurrence.found
    /\ event.WeekDay = 1..5 /\ event.Minute = {0, 30} /\ event.Hour = AnyValue
    /\ from = Instant(2018, 1, 1, 9, 15, 0)
    /\ occurrence.at = Instant(2018, 1, 1, 9, 30, 0)

----------------------------------------------------------------------------
(* Properties of the materializer on lists (checked under ListSpec)        *)

RECURSIVE Offset(_)
Offset(k) ==
    IF k <= 1 THEN 0
    ELSE Offset(k - 1) + Len(getCalendarIntervalsFromSchedule(rules[k - 1]))

\* C19: for several schedules the trigger list is the concatenation, in
\* schedule order, of the entries of each schedule, and its length the sum of
\* their entry counts; the three documented rules give 10 + 2 + 1 = 13 entries.
C19_Concatenation ==
    mpc = "listed" =>
        /\ Len(entries) = Offset(Len(rules) + 1)
        /\ \A k \in DOMAIN rules :
                LET own == getCalendarIntervalsFromSchedule(rules[k])
                IN \A i \in DOMAIN own : entries[Offset(k) + i] = own[i]
        /\ rules = DocumentedRules =>
                /\ Len(entries) = 13
                /\ Offset(2) = 10 /\ Offset(3) = 12

C19_Witness ==
    /\ mpc = "listed" /\ rules = DocumentedRules
    /\ Len(entries) = 13
    /\ entries[11].Weekday = 6 /\ entries[10].Weekday = 5

----------------------------------------------------------------------------
(* Properties of the materializer on one event, continued (under MatSpec)  *)

\* the five fields a CalendarInterval carries, in priority order, and the entry
\* key each one is written under
Priority == <<"WeekDay", "Month", "Day", "Hour", "Minute">>

EntryKey(f) == IF f = "WeekDay" THEN "Weekday" ELSE f

MultiValued(value) == Cardinality(value) > 1

RECURSIVE BlockSize(_, _)
BlockSize(schedule, k) ==
    IF k >= Len(Priority) THEN 1
    ELSE LET n == Cardinality(schedule[Priority[k + 1]])
         IN (IF n > 1 THEN n ELSE 1) * BlockSize(schedule, k + 1)

\* C11 as stated: when some field is multi-valued the entries are exactly the
\* Cartesian product of the value sets of the multi-valued fields, every
\* combination in exactly one entry; for each multi-valued field, entry i (from
\* 0) takes the value at position (i / blockSize) mod cardinality, the fields
\* taken in priority order.
C11_CartesianProduct ==
    (mpc = "done" /\ \E k \in DOMAIN Priority : MultiValued(event[Priority[k]])) =>
        /\ Len(entries) = BlockSize(event, 0)
        /\ \A i \in DOMAIN entries : \A k \in DOMAIN Priority :
                LET values == GetRangeValues(event[Priority[k]])
                IN MultiValued(event[Priority[k]]) =>
                      entries[i][EntryKey(Priority[k])]
                        = values[(((i - 1) \div BlockSize(event, k)) % Len(values)) + 1]

\* C12 as stated: in every entry a field whose value is Any is omitted and a
\* Singleton field holds its fixed value, for each of Weekday, Month, Day, Hour
\* and Minute.
C12_AnyOmittedSingletonCarried ==
    mpc = "done" =>
        \A i \in DOMAIN entries : \A k \in DOMAIN Priority :
            LET value == event[Priority[k]]
                key == EntryKey(Priority[k])
            IN /\ ~HasValue(value) => key \notin PlistKeys(entries[i])
               /\ Cardinality(value) = 1 => entries[i][key] \in value

\* C21 as stated: a field constrained to the value 0 (Weekday Sunday, Hour 0,
\* Minute 0) is written into every trigger record as a constraint on that
\* field, so that it differs from an unconstrained field: a schedule restricted
\* to Sunday gives no record without a Weekday.
C21_ZeroIsEmitted ==
    mpc = "done" =>
        \A i \in DOMAIN entries : \A k \in DOMAIN Priority :
            event[Priority[k]] = {0} => EntryKey(Priority[k]) \in PlistKeys(entries[i])

----------------------------------------------------------------------------
(* Properties of the Job verbs, continued (checked under Spec)             *)

C23_StopUnloadDelete ==
    [][(last'.op = "Remove" /\ Called(last', "RemoveJob")) =>
        LET steps == last'.steps
            name == getJobName(job.config.Name)
        IN /\ steps = <<>> <=> last'.err.kind = "home"
           /\ steps # <<>> =>
                /\ Len(steps) >= 2
                /\ steps[1] \in {"stop", "stop failed"}
                /\ steps[2] \in {"unload", "unload failed"}
                /\ steps[2] = "unload failed" <=> last'.err.kind = "unload"
                /\ steps[2] = "unload failed" => Len(steps) = 2 /\ agents' = agents
                /\ steps[2] = "unload" =>
                        Len(steps) = 3 /\ steps[3] \in {"remove", "remove failed"}
           /\ agents' # agents =>
                /\ Len(steps) = 3 /\ steps[2] = "unload" /\ steps[3] = "remove"
                /\ agents' = [agents EXCEPT ![name] = NoFile]
           /\ last'.err = nil <=> (Len(steps) = 3 /\ steps[3] = "remove")
           /\ last'.err = nil => agents'[name] = NoFile]_vars

C23_Witness ==
    /\ last.op = "Remove" /\ last.err = nil /\ last.before = "job"
    /\ last.steps = <<"stop failed", "unload", "remove">>
    /\ JobFile = NoFile

----------------------------------------------------------------------------
(* Properties of the job identity (checked under NameSpec)                 *)

\* C24: the identity of a job in the registry is the fixed prefix followed by
\* the lower-cased profile name: two profiles share an agent file exactly when
\* their lower-cased names are equal; a successful Create() for a profile
\* writes, and a successful Remove() deletes, the file of every profile whose
\* name differs from it only in letter case, and neither changes the file of a
\* profile whose lower-cased name is different.
C24_IdentityIsLowerCasedName ==
    [][/\ \A p, q \in ProfileNames :
            /\ getJobName(p) = namePrefix \o ToLower(p)
            /\ ToLower(p) = ToLower(q) <=> getJobName(p) = getJobName(q)
       /\ last'.op \in {"Create", "Remove"} =>
            \A q \in ProfileNames :
                IF ToLower(q) = ToLower(job.config.Name)
                    THEN /\ (last'.op = "Create" /\ last'.err = nil) =>
                                /\ IsLaunchJob(agents'[getJobName(q)])
                                /\ agents'[getJobName(q)].ProgramArguments
                                        = job.config.Name
                         /\ (last'.op = "Remove" /\ last'.err = nil) =>
                                agents'[getJobName(q)] = NoFile
                    ELSE agents'[getJobName(q)] = agents[getJobName(q)]]_vars

C24_Witness ==
    /\ last.op = "Remove" /\ last.err = nil
    /\ job.config.Name = <<"b", "k">> /\ last.owner = <<"B", "K">>
    /\ agents[getJobName(<<"B", "K">>)] = NoFile
    /\ IsLaunchJob(agents[getJobName(<<"d", "b">>)])

====
